---------------------------- MODULE Spec2Model ----------------------------
(***************************************************************************)
(* Model of the bolt capacity calculator                                   *)
(* (src/Connections/connection_calculations.py, class                      *)
(* ConnectionCalculations) and of the anchor bolt geometry builders        *)
(* (src/cad/items/anchor_bolt.py, classes AnchorBolt_A, AnchorBolt_B and   *)
(* AnchorBolt_Endplate).                                                   *)
(*                                                                         *)
(* Conventions.                                                            *)
(*  - The code is read with Python 3 semantics: "/" is true division,      *)
(*    "%" and int() are as in Python 3.                                    *)
(*  - A Python value that may be absent (None, or an attribute or global   *)
(*    that was never assigned) is a sequence: <<>> when absent, <<v>> when *)
(*    it holds v.                                                          *)
(*  - Capacities (kN) and k_b are held in thousandths, the unit round(.,3) *)
(*    rounds to, so that the float results are integers here.              *)
(*  - min_edge_multiplier is held in tenths (17 stands for 1.7).           *)
(*  - Lengths and coordinates of the builders are held in quarters of a    *)
(*    millimetre (a / 2, l / 2, endplate_width / 2 and 5 / 2 are integers  *)
(*    in that unit).                                                       *)
(*  - A call is one action.  It records what was called in lastCall and    *)
(*    how the call ended in ret: status "ok" with the returned value, or   *)
(*    the name of the Python exception that ended it.                      *)
(***************************************************************************)
EXTENDS Integers, Sequences, FiniteSets, TLC

VARIABLES
    lastCall,             \* the most recent call: [op, args]
    ret,                  \* how it ended: [status, value]
    thickness_governing,  \* module global read by calculate_distances
    angle_fy,             \* self.angle_fy
    min_pitch,            \* self.min_pitch
    min_gauge,            \* self.min_gauge
    min_end_dist,         \* self.min_end_dist
    min_edge_dist,        \* self.min_edge_dist
    max_spacing,          \* self.max_spacing
    max_edge_dist,        \* self.max_edge_dist
    end_dist,             \* self.end_dist
    pitch,                \* self.pitch
    bolt_hole_diameter,   \* self.bolt_hole_diameter
    bolt_fu,              \* self.bolt_fu
    angle_fu,             \* self.angle_fu
    k_b,                  \* self.k_b
    bolt,                 \* the anchor bolt instance (its attributes)
    kernel,               \* what the last call asked of the geometry kernel
    placed                \* history: a place call has completed on the instance

distVars == <<thickness_governing, angle_fy, min_pitch, min_gauge,
              min_end_dist, min_edge_dist, max_spacing, max_edge_dist>>
kbVars   == <<end_dist, pitch, bolt_hole_diameter, bolt_fu, angle_fu, k_b>>
boltVars == <<bolt, kernel, placed>>
vars     == <<lastCall, ret, distVars, kbVars, boltVars>>

-----------------------------------------------------------------------------
(* Python values                                                           *)

None    == <<>>
Some(v) == <<v>>
IsSet(x) == x # <<>>
Val(x)  == x[1]

Ok(v)   == [status |-> "ok", value |-> Some(v)]
Err(e)  == [status |-> e, value |-> None]
NoCall  == [op |-> "none", args |-> <<>>]
NoRet   == [status |-> "none", value |-> None]

Abs(x)     == IF x < 0 THEN 0 - x ELSE x
Min2(x, y) == IF x <= y THEN x ELSE y
Max2(x, y) == IF x >= y THEN x ELSE y

-----------------------------------------------------------------------------
(* Inputs                                                                  *)

\* The bolt sizes of the data model (spec section 3).
Diameters == {12, 14, 16, 18, 20, 22, 24, 27, 30, 36}
\* Sizes no table lists.
OtherDiameters == {10, 42}
DiameterInputs == Diameters \cup OtherDiameters

MaxBolts == 4
BoltFuInputs == {0, 400, 410, 800, 830}

MaxClearance == 5
ClearanceInputs == {None} \cup {Some(v) : v \in 0..MaxClearance}
\* 1: standard hole, 0: over size hole, 2: neither
HoleTypeInputs == {0, 1, 2}

-----------------------------------------------------------------------------
(* bolt_shear                                                              *)

\* The table with the two sizes of the data model it does not list.
bolt_areaAllSizes ==
    (12 :> 843) @@ (14 :> 1150) @@ (16 :> 1570) @@ (18 :> 1920) @@ (20 :> 2450) @@
    (22 :> 3030) @@ (24 :> 3530) @@ (27 :> 4590) @@ (30 :> 5610) @@ (36 :> 8170)

\* The table of lines 31-40, in tenths of mm^2 (84.3 is 843).
bolt_area ==
    (12 :> 843) @@ (16 :> 1570) @@ (20 :> 2450) @@ (22 :> 3030) @@
    (24 :> 3530) @@ (27 :> 4590) @@ (30 :> 5610) @@ (36 :> 8170)

\* floor(A * sqrt(48)) for 0 <= A < 10^8, by long multiplication of A with
\* floor(sqrt(48) * 10^12) = 6 9282 0323 0275 in limbs of four digits, so
\* that no intermediate value leaves 32 bits.
FloorMulSqrt48(A) ==
    LET aL == A % 10000
        aH == A \div 10000
        r0 == aL * 275
        r1 == aL * 323 + aH * 275
        r2 == aL * 9282 + aH * 323
        r3 == aL * 6 + aH * 9282
        r4 == aH * 6
        t1 == r1 + (r0 \div 10000)
        t2 == r2 + (t1 \div 10000)
    IN  r4 * 10000 + r3 + (t2 \div 10000)

\* Lines 41-42 for a listed diameter, in thousandths of a kN:
\*   round(bolt_fu * number_of_bolts * bolt_area / sqrt(3) / 1000 / 1.25, 3).
\* With A = bolt_fu * number_of_bolts * (10 * bolt_area) the value in
\* thousandths is A / (12.5 * sqrt(3)) = A * sqrt(48) / 150, and rounding to
\* the nearest integer is floor((A * sqrt(48) + 75) / 150); the value is
\* irrational unless A = 0, so no tie arises.
\* (First, the same value with number_of_bolts left out of the product.)
bolt_shear_capacityNoCount(bolt_diameter, number_of_bolts, fu) ==
    (FloorMulSqrt48(fu * bolt_area[bolt_diameter]) + 75) \div 150

bolt_shear_capacity(bolt_diameter, number_of_bolts, fu) ==
    (FloorMulSqrt48(fu * number_of_bolts * bolt_area[bolt_diameter]) + 75) \div 150

\* bolt_shear, lines 30-42: the lookup of line 40 raises KeyError for a
\* diameter the table does not list.
bolt_shear(bolt_diameter, number_of_bolts, fu) ==
    IF bolt_diameter \in DOMAIN bolt_area
    THEN Ok(bolt_shear_capacity(bolt_diameter, number_of_bolts, fu))
    ELSE Err("KeyError")

-----------------------------------------------------------------------------
(* bolt_hole_clearance                                                     *)

\* Lines 82-92: standard holes.
standard_hole_clearance ==
    (12 :> 1) @@ (14 :> 1) @@ (16 :> 2) @@ (18 :> 2) @@ (20 :> 2) @@
    (22 :> 2) @@ (24 :> 2) @@ (30 :> 3) @@ (36 :> 3)

\* Lines 94-104: over size holes.
oversize_hole_clearance ==
    (12 :> 3) @@ (14 :> 3) @@ (16 :> 4) @@ (18 :> 4) @@ (20 :> 4) @@
    (22 :> 4) @@ (24 :> 6) @@ (30 :> 8) @@ (36 :> 8)

\* bolt_hole_clearance, lines 81-107.  The table of the hole type is read
\* first (KeyError for a diameter it does not list); then a custom clearance
\* that is not None replaces the value; a hole type that is neither 1 nor 0
\* leaves hole_clearance unassigned, and returning it raises
\* UnboundLocalError unless the custom clearance assigned it.
bolt_hole_clearance(bolt_hole_type, bolt_diameter, custom_hole_clearance) ==
    LET table == IF bolt_hole_type = 1 THEN standard_hole_clearance
                 ELSE oversize_hole_clearance
    IN  IF bolt_hole_type \in {0, 1} /\ bolt_diameter \notin DOMAIN table
        THEN Err("KeyError")
        ELSE IF IsSet(custom_hole_clearance)
             THEN Ok(Val(custom_hole_clearance))
             ELSE IF bolt_hole_type \in {0, 1}
                  THEN Ok(table[bolt_diameter])
                  ELSE Err("UnboundLocalError")

-----------------------------------------------------------------------------
(* The calculator's functions as calls                                     *)

CallBoltShear ==
    \E d \in DiameterInputs, n \in 0..MaxBolts, fu \in BoltFuInputs :
        /\ lastCall' = [op |-> "bolt_shear", args |-> <<d, n, fu>>]
        /\ ret' = bolt_shear(d, n, fu)
        /\ UNCHANGED <<distVars, kbVars, boltVars>>

CallBoltHoleClearance ==
    \E t \in HoleTypeInputs, d \in DiameterInputs, c \in ClearanceInputs :
        /\ lastCall' = [op |-> "bolt_hole_clearance", args |-> <<t, d, c>>]
        /\ ret' = bolt_hole_clearance(t, d, c)
        /\ UNCHANGED <<distVars, kbVars, boltVars>>

-----------------------------------------------------------------------------------------------------------------------------------------------------
(* calculate_kb                                                            *)

EndDistInputs  == {3, 27, 70}
PitchInputs    == {9, 60, 90}
HoleDiaInputs  == {0, 13, 16, 80}
KbBoltFuInputs == {400, 800}
AngleFuInputs  == {0, 250, 410}

\* The exact value of a float that is a quotient of integers is the pair
\* <<numerator, denominator>> with a positive denominator.
RatLess(x, y) == x[1] * y[2] < y[1] * x[2]

\* Python's min over the arguments in order: a later argument replaces the
\* running minimum only when it is strictly smaller.
RECURSIVE PyMin(_)
PyMin(s) ==
    IF Len(s) = 1 THEN s[1]
    ELSE LET m == PyMin(SubSeq(s, 1, Len(s) - 1))
         IN  IF RatLess(s[Len(s)], m) THEN s[Len(s)] ELSE m

\* The floats of lines 163-165 are IEEE doubles: a quotient is the exact
\* quotient rounded to 53 significant binary digits, to the nearest and to
\* the even one of the two on a tie.  What round(., 3) of line 167 needs of
\* that is the side the double lies on: -1 below the exact value, 0 equal to
\* it, 1 above it.  The binary digits of p / q come from the remainders of
\* p * 2^n modulo q (here q < 2^15, so that no product exceeds 32 bits).

\* The number of binary digits of n.
RECURSIVE BitLength(_)
BitLength(n) == IF n = 0 THEN 0 ELSE 1 + BitLength(n \div 2)

\* The least m with p * 2^m >= q, for 0 < p.
RECURSIVE LeadingZeros(_, _)
LeadingZeros(p, q) == IF p >= q THEN 0 ELSE 1 + LeadingZeros(2 * p, q)

RECURSIVE Pow2(_)
Pow2(j) == IF j = 0 THEN 1 ELSE 2 * Pow2(j - 1)

\* 2^n modulo q
RECURSIVE Pow2Mod(_, _)
Pow2Mod(n, q) ==
    IF n = 0 THEN 1 % q
    ELSE LET h == Pow2Mod(n \div 2, q)
         IN  (((h * h) % q) * (IF n % 2 = 1 THEN 2 ELSE 1)) % q

\* The n-th binary digit after the point of p / q, for n >= 1, and the
\* remainder left after it: p * 2^n = q * (... digit) + rem.
DigitAt(p, q, n) ==
    LET before == ((p % q) * Pow2Mod(n - 1, q)) % q
        digit  == IF 2 * before >= q THEN 1 ELSE 0
    IN  [digit |-> digit, rem |-> 2 * before - q * digit]

\* The rounding of p / q to the double p / float(q), for integers p > 0 and
\* q > 0: the quotient is cut after its 53rd significant digit, the n-th
\* after the point, leaving the remainder rem, and is rounded up or down.
FloatDivRounding(p, q) ==
    LET hi == p \div q
        n  == IF hi > 0 THEN 53 - BitLength(hi) ELSE 52 + LeadingZeros(p, q)
        d  == DigitAt(p, q, n)
    IN  [n |-> n, rem |-> d.rem,
         up |-> 2 * d.rem > q \/ (2 * d.rem = q /\ d.digit = 1)]

\* The side of p / q on which the double p / float(q) lies, for integers
\* p >= 0 and q > 0.
FloatDivSide(p, q) ==
    IF p = 0 THEN 0
    ELSE LET f == FloatDivRounding(p, q)
         IN  IF f.rem = 0 THEN 0 ELSE IF f.up THEN 1 ELSE -1

\* The side of p / q - 1/4 on which the double p / float(q) - 0.25 lies.
\* From a quotient of 0.125 or more the subtraction is exact.  From a smaller
\* one the difference lies between -0.25 and -0.125, where the doubles are
\* 2^-55 apart, and is rounded a second time: with x = p * 2^55 / q, the
\* quotient holds x to j more binary digits (j + 3 being the number of
\* leading zeros of p / q) and the difference holds it to none.
FloatSubQuarterSide(p, q) ==
    IF 8 * p >= q THEN FloatDivSide(p, q)
    ELSE IF p = 0 THEN 0
    ELSE LET whole == DigitAt(p, q, 55)
             j     == LeadingZeros(p, q) - 3
             bits  == (whole.rem * Pow2(j)) \div q
             rem   == (whole.rem * Pow2(j)) % q
             carry == IF 2 * rem > q \/ (2 * rem = q /\ bits % 2 = 1) THEN 1 ELSE 0
             kept  == bits + carry
             up    == \/ 2 * kept > Pow2(j)
                      \/ (2 * kept = Pow2(j) /\ whole.digit = 1)
         IN  IF up THEN 1 ELSE IF whole.rem > 0 THEN -1 ELSE 0

\* round(x, 3), line 167, in thousandths, of the double whose exact
\* neighbour is x = n / d and that lies on the given side of it: the nearest
\* integer to 1000 * x; when 1000 * x is exactly half way between two
\* integers the double decides, and the even one of the two is taken when
\* the double is itself the half-way value.
Round3(x, side) ==
    LET n   == x[1]
        d   == x[2]
        q   == (1000 * n) \div d
        rem == 1000 * n - q * d
    IN  IF 2 * rem < d THEN q
        ELSE IF 2 * rem > d THEN q + 1
        ELSE IF side < 0 THEN q
        ELSE IF side > 0 THEN q + 1
        ELSE IF q % 2 = 0 THEN q ELSE q + 1

\* The arguments of min without the cap of line 166.
kb_termsNoCap(e, p, h, fu, afu) ==
    << <<e, 3 * h>>, <<4 * p - 3 * h, 12 * h>>, <<fu, afu>> >>

\* The arguments of min, lines 163-166, as exact values:
\*   end_dist / float(3 * bolt_hole_diameter),
\*   pitch / float(3 * bolt_hole_diameter) - 0.25   = (4p - 3h) / (12h),
\*   bolt_fu / float(angle_fu),
\*   1
kb_terms(e, p, h, fu, afu) ==
    << <<e, 3 * h>>, <<4 * p - 3 * h, 12 * h>>, <<fu, afu>>, <<1, 1>> >>

\* The side of its exact value each argument of min lies on, as a double.
kb_term_sides(e, p, h, fu, afu) ==
    << FloatDivSide(e, 3 * h), FloatSubQuarterSide(p, 3 * h),
       FloatDivSide(fu, afu), 0 >>

\* Lines 163-167 for attributes that are set and divisors that are not 0:
\* the rounded minimum in thousandths.  Arguments with different exact
\* values are ordered as doubles as they are exactly; of arguments with the
\* same exact value the least double is the minimum.
kb_value(e, p, h, fu, afu) ==
    LET terms == kb_terms(e, p, h, fu, afu)
        sides == kb_term_sides(e, p, h, fu, afu)
        m     == PyMin(terms)
        least == {sides[i] : i \in {k \in 1..Len(terms) : ~RatLess(m, terms[k])}}
    IN  Round3(m, CHOOSE s \in least : \A t \in least : s <= t)

\* calculate_kb, lines 163-167: how the call ends and self.k_b after it.  The
\* arguments are the five attributes it reads, absent or set, in the order it
\* reads them, and old is self.k_b before the call: an attribute never
\* assigned raises AttributeError and a division by float(0)
\* ZeroDivisionError, both before self.k_b is assigned.
calculate_kb(old, e, p, h, fu, afu) ==
    IF ~IsSet(e) \/ ~IsSet(h)
    THEN [status |-> "AttributeError", k_b |-> old]
    ELSE IF Val(h) = 0
    THEN [status |-> "ZeroDivisionError", k_b |-> old]
    ELSE IF ~IsSet(p) \/ ~IsSet(fu) \/ ~IsSet(afu)
    THEN [status |-> "AttributeError", k_b |-> old]
    ELSE IF Val(afu) = 0
    THEN [status |-> "ZeroDivisionError", k_b |-> old]
    ELSE [status |-> "ok",
          k_b |-> Some(kb_value(Val(e), Val(p), Val(h), Val(fu), Val(afu)))]

\* calculate_kb takes no argument and returns None.
CallCalculateKb ==
    \E r \in {calculate_kb(k_b, end_dist, pitch, bolt_hole_diameter, bolt_fu, angle_fu)} :
        /\ k_b' = r.k_b
        /\ lastCall' = [op |-> "calculate_kb", args |-> <<>>]
        /\ ret' = [status |-> r.status, value |-> None]
        /\ UNCHANGED <<end_dist, pitch, bolt_hole_diameter, bolt_fu, angle_fu,
                       distVars, boltVars>>

\* The caller assigns the attributes calculate_kb reads; no method of the
\* class does.
AssignEndDist ==
    \E e \in EndDistInputs :
        /\ end_dist' = Some(e)
        /\ lastCall' = [op |-> "assign end_dist", args |-> <<e>>]
        /\ ret' = NoRet
        /\ UNCHANGED <<pitch, bolt_hole_diameter, bolt_fu, angle_fu, k_b,
                       distVars, boltVars>>

AssignPitch ==
    \E p \in PitchInputs :
        /\ pitch' = Some(p)
        /\ lastCall' = [op |-> "assign pitch", args |-> <<p>>]
        /\ ret' = NoRet
        /\ UNCHANGED <<end_dist, bolt_hole_diameter, bolt_fu, angle_fu, k_b,
                       distVars, boltVars>>

AssignBoltHoleDiameter ==
    \E h \in HoleDiaInputs :
        /\ bolt_hole_diameter' = Some(h)
        /\ lastCall' = [op |-> "assign bolt_hole_diameter", args |-> <<h>>]
        /\ ret' = NoRet
        /\ UNCHANGED <<end_dist, pitch, bolt_fu, angle_fu, k_b, distVars, boltVars>>

AssignBoltFu ==
    \E fu \in KbBoltFuInputs :
        /\ bolt_fu' = Some(fu)
        /\ lastCall' = [op |-> "assign bolt_fu", args |-> <<fu>>]
        /\ ret' = NoRet
        /\ UNCHANGED <<end_dist, pitch, bolt_hole_diameter, angle_fu, k_b,
                       distVars, boltVars>>

AssignAngleFu ==
    \E afu \in AngleFuInputs :
        /\ angle_fu' = Some(afu)
        /\ lastCall' = [op |-> "assign angle_fu", args |-> <<afu>>]
        /\ ret' = NoRet
        /\ UNCHANGED <<end_dist, pitch, bolt_hole_diameter, bolt_fu, k_b,
                       distVars, boltVars>>

-----
(* calculate_distances                                                     *)

HoleInputs       == {13, 18, 20, 22, 50}
\* min_edge_multiplier in tenths: 1.1, 1.5 and 1.7
MultiplierInputs == {11, 15, 17}
ThicknessInputs  == {6, 10}
AngleFyInputs    == {0, 250, 410}

\* Lines 125-126: int(2.5 * bolt_diameter), 2.5 * d = 5d / 2 being exact.
int_2_5_times(bolt_diameter) == (5 * bolt_diameter) \div 2

\* min_edge_multiplier * bolt_hole_diameter of lines 129-130 is a product of
\* doubles: the multiplier, m tenths, is the double nearest m / 10, and the
\* product with the integer h is rounded again.  When m * h / 10 is an
\* integer N, the double product exceeds N exactly when the multiplier was
\* rounded up by more than half the spacing of the doubles at N allows.
FloatProductAbove(m, h) ==
    /\ m > 0 /\ h > 0 /\ (m * h) % 10 = 0
    /\ LET f == FloatDivRounding(m, 10)
           k == f.n + BitLength((m * h) \div 10) - 54
       IN  /\ f.rem # 0
           /\ f.up
           /\ 2 * (10 - f.rem) * h > 10 * Pow2(k + 1)

\* Lines 129-130: int(math.ceil(min_edge_multiplier * bolt_hole_diameter)),
\* the multiplier in tenths: the ceiling of the exact product, and one more
\* when the exact product is an integer and the double product exceeds it.
ceil_multiplier_times(min_edge_multiplier, hole_diameter) ==
    (0 - ((0 - min_edge_multiplier * hole_diameter) \div 10))
    + (IF FloatProductAbove(min_edge_multiplier, hole_diameter) THEN 1 ELSE 0)

\* The right-hand side of lines 135-136 with "/" as a floor division.
roundoff_pitchFloorDiv(x) == ((x \div 5) + 1) * 5 - (x % 5)

\* The right-hand side of lines 135-136, ((x / 5) + 1) * 5 - x % 5, where
\* "/" is the true division: ((x / 5) + 1) * 5 is x + 5.
roundoff_pitch(x) == (x + 5) - (x % 5)

\* The right-hand side of lines 138-139: int((int(x / 5) + 1) * 5).
roundoff_edge(x) == ((x \div 5) + 1) * 5

\* Line 142: math.ceil(min(32 * thickness_governing, 300)).
max_spacing_of(t) == Min2(32 * t, 300)

\* Line 146: math.ceil(12 * t * sqrt(250 / fy)), the least k with
\* k >= 12 * t * sqrt(250 / fy), that is k * k * fy >= 36000 * t * t.
max_edge_dist_of(t, fy) ==
    CHOOSE k \in 0..(IF fy >= 250 THEN 12 * t ELSE 192 * t) :
        /\ k * k * fy >= 36000 * t * t
        /\ k = 0 \/ (k - 1) * (k - 1) * fy < 36000 * t * t

\* calculate_distances, lines 124-146: the attributes after the call and how
\* it ended.  old holds the six attributes before the call; tg and fy are the
\* global thickness_governing and self.angle_fy, absent or set.  The four
\* minimum distances are assigned before the global is read at line 142
\* (NameError when it was never assigned), and max_spacing before
\* self.angle_fy is read at line 146 (AttributeError when it was never
\* assigned, ZeroDivisionError for 250 / 0).
calculate_distances(old, tg, fy, bolt_diameter, hole_diameter, min_edge_multiplier) ==
    LET p0 == int_2_5_times(bolt_diameter)
        g0 == int_2_5_times(bolt_diameter)
        e0 == ceil_multiplier_times(min_edge_multiplier, hole_diameter)
        d0 == ceil_multiplier_times(min_edge_multiplier, hole_diameter)
        roundPitch == p0 % 5 # 0 \/ g0 % 5 # 0
        p1 == IF roundPitch THEN roundoff_pitch(p0) ELSE p0
        g1 == IF roundPitch THEN roundoff_pitch(p1) ELSE g0
        roundEdge == d0 % 5 # 0 \/ e0 % 5 # 0
        d1 == IF roundEdge THEN roundoff_edge(d0) ELSE d0
        e1 == IF roundEdge THEN roundoff_edge(e0) ELSE e0
        mins == [old EXCEPT !.min_pitch = Some(p1), !.min_gauge = Some(g1),
                            !.min_end_dist = Some(e1), !.min_edge_dist = Some(d1)]
    IN  IF ~IsSet(tg)
        THEN [status |-> "NameError", attrs |-> mins]
        ELSE LET spaced == [mins EXCEPT !.max_spacing = Some(max_spacing_of(Val(tg)))]
             IN  IF ~IsSet(fy)
                 THEN [status |-> "AttributeError", attrs |-> spaced]
                 ELSE IF Val(fy) = 0
                      THEN [status |-> "ZeroDivisionError", attrs |-> spaced]
                      ELSE [status |-> "ok",
                            attrs |-> [spaced EXCEPT !.max_edge_dist =
                                          Some(max_edge_dist_of(Val(tg), Val(fy)))]]

\* The six attributes calculate_distances assigns.
Distances ==
    [min_pitch |-> min_pitch, min_gauge |-> min_gauge,
     min_end_dist |-> min_end_dist, min_edge_dist |-> min_edge_dist,
     max_spacing |-> max_spacing, max_edge_dist |-> max_edge_dist]

CallCalculateDistances ==
    \E d \in DiameterInputs, h \in HoleInputs, m \in MultiplierInputs :
        \E r \in {calculate_distances(Distances, thickness_governing, angle_fy, d, h, m)} :
            /\ min_pitch' = r.attrs.min_pitch
            /\ min_gauge' = r.attrs.min_gauge
            /\ min_end_dist' = r.attrs.min_end_dist
            /\ min_edge_dist' = r.attrs.min_edge_dist
            /\ max_spacing' = r.attrs.max_spacing
            /\ max_edge_dist' = r.attrs.max_edge_dist
            /\ lastCall' = [op |-> "calculate_distances", args |-> <<d, h, m>>]
            /\ ret' = [status |-> r.status, value |-> None]
            /\ UNCHANGED <<thickness_governing, angle_fy, kbVars, boltVars>>

\* The caller assigns the module global thickness_governing.
AssignThicknessGoverning ==
    \E t \in ThicknessInputs :
        /\ thickness_governing' = Some(t)
        /\ lastCall' = [op |-> "assign thickness_governing", args |-> <<t>>]
        /\ ret' = NoRet
        /\ UNCHANGED <<angle_fy, min_pitch, min_gauge, min_end_dist, min_edge_dist,
                       max_spacing, max_edge_dist, kbVars, boltVars>>

\* The caller assigns self.angle_fy.
AssignAngleFy ==
    \E fy \in AngleFyInputs :
        /\ angle_fy' = Some(fy)
        /\ lastCall' = [op |-> "assign angle_fy", args |-> <<fy>>]
        /\ ret' = NoRet
        /\ UNCHANGED <<thickness_governing, min_pitch, min_gauge, min_end_dist,
                       min_edge_dist, max_spacing, max_edge_dist, kbVars, boltVars>>

-----------------------------------------------------------------------------
(* Vectors (numpy arrays of three numbers)                                 *)

VAdd(v, w)   == <<v[1] + w[1], v[2] + w[2], v[3] + w[3]>>
VSub(v, w)   == <<v[1] - w[1], v[2] - w[2], v[3] - w[3]>>
VScale(k, v) == <<k * v[1], k * v[2], k * v[3]>>
VNeg(v)      == <<0 - v[1], 0 - v[2], 0 - v[3]>>
VDot(v, w)   == v[1] * w[1] + v[2] * w[2] + v[3] * w[3]
\* numpy.cross(v, w)
VCross(v, w) == <<v[2] * w[3] - v[3] * w[2],
                  v[3] * w[1] - v[1] * w[3],
                  v[1] * w[2] - v[2] * w[1]>>

\* Millimetres to quarters of a millimetre.
Q(x) == 4 * x

-----------------------------------------------------------------------------------------------------------------------------------------------------
(* Inputs of the builders                                                  *)

Variants == {"A", "B", "Endplate"}
LInputs  == {200, 240}
CInputs  == {105}
AInputs  == {60}
RInputs  == {8}

AxisDirs == {<<1, 0, 0>>, <<0, 1, 0>>, <<0, 0, 1>>, <<0, 0, -1>>}
\* The placements: an origin and two orthogonal unit directions.
OriginInputs == {<<0, 0, 0>>, <<10, -20, 30>>}
FrameInputs  == {f \in AxisDirs \X AxisDirs : VDot(f[1], f[2]) = 0}
\* place checks none of its arguments: a caller can pass None for any.
PartialFrameInputs == {<<None, <<0, 0, 1>>>>, <<<<1, 0, 0>>, None>>, <<None, None>>}

-----------------------------------------------------------------------------
(* The three classes                                                       *)

\* An instance is its attributes: l, c, a, r, origin, uDir, shaftDir and vDir
\* of __init__, and in params the attributes compute_params creates (the
\* lengths, p1, p2, ...), of which a fresh instance has none.
NoParams == <<>>
HasAttr(b, name) == name \in DOMAIN b.params

\* The attributes after the assignments new are made over the attributes old.
Assigned(old, new) ==
    [f \in DOMAIN old \cup DOMAIN new |-> IF f \in DOMAIN new THEN new[f] ELSE old[f]]

\* An argument of place, None or a vector, as the attribute that holds it.
Opt(v) == IF v = None THEN None ELSE Some(v)

\* origin, uDir and shaftDir all hold a vector.
Placed(b) == IsSet(b.origin) /\ IsSet(b.uDir) /\ IsSet(b.shaftDir)

\* self.p1 = self.origin
p1_of(b) == IF IsSet(b.origin) THEN VScale(4, Val(b.origin)) ELSE None

\* AnchorBolt_A.compute_params, lines 43-58: how it ends and the attributes
\* it assigns.  The lengths and p1 are assigned first.  Line 49 (p2) needs
\* origin and shaftDir and line 50 (p3) uDir: with None for one of them the
\* arithmetic raises TypeError and what was assigned before stays assigned.
\* hightcyl2 is the square root of hightcyl2_sq.
AnchorBolt_A_compute_params(b) ==
    LET cyl1_length  == Q(b.l) - Q(b.c)
        cyl2_length  == Q(b.c) - (Q(b.a) \div 2)
        cyl3_arc_dia == (Q(b.a) \div 2) - Q(b.r)
        cyl4_length  == Q(b.c) - (Q(b.a) \div 2) - (4 * Q(b.r))
        p1 == p1_of(b)
        first == [cyl1_length |-> cyl1_length, cyl2_length |-> cyl2_length,
                  cyl3_arc_dia |-> cyl3_arc_dia, cyl4_length |-> cyl4_length,
                  p1 |-> p1]
    IN  IF ~IsSet(b.origin) \/ ~IsSet(b.shaftDir)
        THEN [status |-> "TypeError", attrs |-> first]
        ELSE LET s  == Val(b.shaftDir)
                 p2 == VSub(p1, VScale(cyl1_length, s))
             IN  IF ~IsSet(b.uDir)
                 THEN [status |-> "TypeError", attrs |-> Assigned(first, [p2 |-> p2])]
                 ELSE LET u  == Val(b.uDir)
                          p3 == VSub(VSub(p2, VScale(cyl3_arc_dia, u)),
                                     VScale(cyl2_length, s))
                          p4 == VAdd(p3, VScale(cyl3_arc_dia, u))
                          p5 == VAdd(p4, VScale(cyl3_arc_dia, u))
                          p6 == VAdd(VSub(p5, VScale(Q(b.a) \div 2, u)),
                                     VScale(0 - (cyl3_arc_dia - Q(b.r)), s))
                      IN  [status |-> "ok",
                           attrs |-> [cyl1_length |-> cyl1_length,
                                      cyl2_length |-> cyl2_length,
                                      cyl3_arc_dia |-> cyl3_arc_dia,
                                      cyl4_length |-> cyl4_length,
                                      p1 |-> p1, p2 |-> p2, p3 |-> p3, p4 |-> p4,
                                      p5 |-> p5, p6 |-> p6,
                                      angle1 |-> VSub(p3, p2), angle2 |-> VSub(p2, p5),
                                      hightcyl2_sq |-> cyl2_length * cyl2_length
                                                       + cyl3_arc_dia * cyl3_arc_dia]]

\* AnchorBolt_B.compute_params, lines 111-125: line 118 (p2) needs origin and
\* shaftDir, line 119 (p3) uDir.  cyl2_ht is the square root of cyl2_ht_sq.
AnchorBolt_B_compute_params(b) ==
    LET r == Q(b.r)
        cyl4_arc_dia == 3 * r
        cyl3_length  == 10 * r - cyl4_arc_dia
        cyl2_length  == 2 * r
        cyl1_length  == Q(b.l) - cyl3_length - cyl2_length - cyl4_arc_dia
        cyl5_length  == 5 * r - 3 * r
        p1 == p1_of(b)
        first == [cyl4_arc_dia |-> cyl4_arc_dia, cyl3_length |-> cyl3_length,
                  cyl2_length |-> cyl2_length, cyl1_length |-> cyl1_length,
                  cyl5_length |-> cyl5_length, p1 |-> p1]
    IN  IF ~IsSet(b.origin) \/ ~IsSet(b.shaftDir)
        THEN [status |-> "TypeError", attrs |-> first]
        ELSE LET s  == Val(b.shaftDir)
                 p2 == VAdd(p1, VScale(cyl1_length, s))
             IN  IF ~IsSet(b.uDir)
                 THEN [status |-> "TypeError", attrs |-> Assigned(first, [p2 |-> p2])]
                 ELSE LET u  == Val(b.uDir)
                          p3 == VAdd(VSub(p2, VScale(2 * r, u)), VScale(cyl2_length, s))
                          p4 == VAdd(p3, VScale(cyl3_length, s))
                          p5 == VAdd(p4, VScale(2 * r, u))
                          p6 == VAdd(p5, VScale(2 * r, u))
                      IN  [status |-> "ok",
                           attrs |-> [cyl1_length |-> cyl1_length,
                                      cyl2_length |-> cyl2_length,
                                      cyl3_length |-> cyl3_length,
                                      cyl4_arc_dia |-> cyl4_arc_dia,
                                      cyl5_length |-> cyl5_length,
                                      p1 |-> p1, p2 |-> p2, p3 |-> p3, p4 |-> p4,
                                      p5 |-> p5, p6 |-> p6,
                                      cyl2_angle |-> VSub(p3, p2),
                                      cyl2_ht_sq |-> cyl2_length * cyl2_length
                                                     + (2 * r) * (2 * r)]]

\* AnchorBolt_Endplate.compute_params, lines 180-189.  With None for a
\* direction numpy.cross at line 180 raises ValueError (numpy refuses an
\* array of no dimension) before anything is assigned; with directions and
\* no origin, line 188 subtracts from None and raises TypeError after vDir,
\* the lengths and p1 were assigned.
AnchorBolt_Endplate_compute_params(b) ==
    IF ~IsSet(b.shaftDir) \/ ~IsSet(b.uDir)
    THEN [status |-> "ValueError", attrs |-> NoParams]
    ELSE LET u == Val(b.uDir)
             s == Val(b.shaftDir)
             vDir == VCross(s, u)
             cyl1_length        == Q(b.l)
             endplate_thickness == Q(5)
             head               == endplate_thickness \div 5
             endplate_width     == Q(b.l) \div 2
             p1 == p1_of(b)
         IN  IF ~IsSet(b.origin)
             THEN [status |-> "TypeError",
                   attrs |-> [vDir |-> vDir, cyl1_length |-> cyl1_length,
                              endplate_thickness |-> endplate_thickness,
                              head |-> head, endplate_width |-> endplate_width,
                              p1 |-> p1]]
             ELSE LET p2 == VSub(p1, VScale(Q(b.l) - endplate_thickness - head, s))
                      p3 == VSub(VSub(VSub(p2, VScale(endplate_width \div 2, u)),
                                      VScale(endplate_width \div 2, vDir)),
                                 VScale(endplate_thickness \div 2, s))
                  IN  [status |-> "ok",
                       attrs |-> [vDir |-> vDir, cyl1_length |-> cyl1_length,
                                  endplate_thickness |-> endplate_thickness,
                                  head |-> head, endplate_width |-> endplate_width,
                                  p1 |-> p1, p2 |-> p2, p3 |-> p3]]

\* compute_params of the instance's class: how it ends and the instance
\* after it.  self.vDir is the attribute __init__ created.
compute_params(b) ==
    LET r == CASE b.variant = "A" -> AnchorBolt_A_compute_params(b)
               [] b.variant = "B" -> AnchorBolt_B_compute_params(b)
               [] b.variant = "Endplate" -> AnchorBolt_Endplate_compute_params(b)
    IN  [status |-> r.status,
         bolt |-> [b EXCEPT !.params = Assigned(b.params, r.attrs),
                            !.vDir = IF "vDir" \in DOMAIN r.attrs
                                     THEN Some(r.attrs.vDir) ELSE b.vDir]]

\* __init__ that presets the frame of the example at the end of the file
\* (uDir along x, shaftDir along z) and computes the control points for it,
\* leaving origin None.
AnchorBolt_initWithPoints(variant, l, c, a, r) ==
    LET framed == [variant |-> variant, l |-> l, c |-> c, a |-> a, r |-> r,
                   origin |-> Some(<<0, 0, 0>>), uDir |-> Some(<<1, 0, 0>>),
                   shaftDir |-> Some(<<0, 0, 1>>), vDir |-> None,
                   params |-> NoParams]
    IN  [compute_params(framed).bolt EXCEPT !.origin = None]

\* __init__, lines 25-34 (the same in AnchorBolt_B, lines 93-102, and in
\* AnchorBolt_Endplate, lines 162-171).
AnchorBolt_init(variant, l, c, a, r) ==
    [variant |-> variant, l |-> l, c |-> c, a |-> a, r |-> r,
     origin |-> None, uDir |-> None, shaftDir |-> None, vDir |-> None,
     params |-> NoParams]

\* place, lines 36-40 and 173-177: the three assignments, then
\* compute_params.  AnchorBolt_B.place, lines 104-108, stores -shaftDir:
\* with None for shaftDir the negation raises TypeError after origin and
\* uDir were assigned and before compute_params is called.
place(b, origin, uDir, shaftDir) ==
    IF b.variant = "B"
    THEN IF shaftDir = None
         THEN [status |-> "TypeError",
               bolt |-> [b EXCEPT !.origin = Opt(origin), !.uDir = Opt(uDir)]]
         ELSE compute_params([b EXCEPT !.origin = Opt(origin), !.uDir = Opt(uDir),
                                       !.shaftDir = Some(VNeg(shaftDir))])
    ELSE compute_params([b EXCEPT !.origin = Opt(origin), !.uDir = Opt(uDir),
                                  !.shaftDir = Opt(shaftDir)])

-----------------------------------------------------------------------------
(* create_model: the requests made of the geometry kernel                  *)

\* A height the code passes as a number of quarter millimetres, and one it
\* passes as the square root of a number.
Exact(v) == [root |-> FALSE, of |-> v]
Root(v)  == [root |-> TRUE, of |-> v]

\* BRepPrimAPI_MakeCylinder(gp_Ax2(at, dir), radius, height)
Cylinder(name, at, dir, radius, height) ==
    [kind |-> "cylinder", name |-> name, at |-> at, dir |-> dir,
     radius |-> radius, height |-> height]
\* BRepPrimAPI_MakeSphere(at, radius)
Sphere(name, at, radius) ==
    [kind |-> "sphere", name |-> name, at |-> at, radius |-> radius]
\* BRepPrimAPI_MakeRevol of the disc bounded by gp_Circ(gp_Ax2(at, dir),
\* radius), about gp_Ax1(axis_at, axis_dir), by angle degrees
Revol(name, at, dir, radius, axis_at, axis_dir, angle) ==
    [kind |-> "revol", name |-> name, at |-> at, dir |-> dir, radius |-> radius,
     axis_at |-> axis_at, axis_dir |-> axis_dir, angle |-> angle]
\* BRepPrimAPI_MakeBox(at, dx, dy, dz): the kernel's box has its corner at
\* "at" and its three extents along the global x, y and z axes.
Box(name, at, dx, dy, dz) ==
    [kind |-> "box", name |-> name, at |-> at,
     ex |-> <<dx, 0, 0>>, ey |-> <<0, dy, 0>>, ez |-> <<0, 0, dz>>]

\* What a create_model asked of the kernel: the primitives in the order they
\* were made, and the primitives in the order BRepAlgoAPI_Fuse joined them
\* (the first two by the first fuse, one more by each later fuse).
NoRequests == [made |-> <<>>, fused |-> <<>>]

\* The first statement of each create_model (lines 61-62, 128-129, 192-193):
\* the shaft cylinder from p1, along -shaftDir (along shaftDir in
\* AnchorBolt_B, whose place stored the negated direction).
boltCylinder1_of(b) ==
    Cylinder("boltCylinder1", b.params.p1,
             IF b.variant = "B" THEN Val(b.shaftDir) ELSE VNeg(Val(b.shaftDir)),
             Q(b.r), Exact(b.params.cyl1_length))

\* AnchorBolt_A.create_model, lines 61-88.
AnchorBolt_A_create_model(b) ==
    LET q == b.params
        r == Q(b.r)
        boltCylinder1 == boltCylinder1_of(b)
        boltCylinder2 == Cylinder("boltCylinder2", q.p2, q.angle1, r,
                                  Root(q.hightcyl2_sq))
        sphere1 == Sphere("sphere1", q.p2, r)
        sphere2 == Sphere("sphere2", q.p3, r)
        sphere3 == Sphere("sphere3", q.p5, r)
        boltCylinder3 == Revol("boltCylinder3", q.p3, Val(b.shaftDir), r,
                               q.p4, <<0, -1, 0>>, 180)
        boltCylinder4 == Cylinder("boltCylinder4", q.p5, q.angle2, r,
                                  Exact(q.cyl4_length))
    IN  [made  |-> <<boltCylinder1, boltCylinder2, sphere1, sphere2, sphere3,
                     boltCylinder3, boltCylinder4>>,
         fused |-> <<boltCylinder1, boltCylinder2, sphere1, sphere2,
                     boltCylinder3, sphere3, boltCylinder4>>]

\* AnchorBolt_B.create_model, lines 128-157.
AnchorBolt_B_create_model(b) ==
    LET q == b.params
        r == Q(b.r)
        s == Val(b.shaftDir)
        boltCylinder1 == boltCylinder1_of(b)
        boltCylinder2 == Cylinder("boltCylinder2", q.p2, q.cyl2_angle, r,
                                  Root(q.cyl2_ht_sq))
        boltCylinder3 == Cylinder("boltCylinder3", q.p3, s, r, Exact(q.cyl3_length))
        boltCylinder4 == Cylinder("boltCylinder4", q.p6, VNeg(s), r,
                                  Exact(q.cyl5_length))
        sphere1 == Sphere("sphere1", q.p2, r)
        sphere2 == Sphere("sphere2", q.p3, r)
        revolved_shape == Revol("revolved_shape", q.p4, s, r, q.p5, <<0, -1, 0>>, 180)
    IN  [made  |-> <<boltCylinder1, boltCylinder2, boltCylinder3, boltCylinder4,
                     sphere1, sphere2, revolved_shape>>,
         fused |-> <<boltCylinder1, boltCylinder2, boltCylinder3, revolved_shape,
                     boltCylinder4, sphere1, sphere2>>]

\* AnchorBolt_Endplate.create_model, lines 192-199.
AnchorBolt_Endplate_create_model(b) ==
    LET q == b.params
        boltCylinder1 == boltCylinder1_of(b)
        bolt_endplate == Box("bolt_endplate", q.p3, q.endplate_width,
                             q.endplate_width, q.endplate_thickness)
    IN  [made  |-> <<boltCylinder1, bolt_endplate>>,
         fused |-> <<boltCylinder1, bolt_endplate>>]

\* The attribute compute_params assigns last: an instance has it exactly when
\* it has all the attributes create_model reads.
LastAttr(b) ==
    CASE b.variant = "A" -> "hightcyl2_sq"
      [] b.variant = "B" -> "cyl2_ht_sq"
      [] b.variant = "Endplate" -> "p3"

\* create_model of the instance's class, statement by statement.  The first
\* statement reads self.p1: AttributeError on an instance compute_params
\* never ran on, TypeError when p1 or shaftDir is None (a point or a
\* direction cannot be built from None); nothing was asked of the kernel
\* yet.  The second statement reads attributes the lines of compute_params
\* after p1 assign (p2 and angle1, p2 and cyl2_angle, p3): AttributeError
\* when compute_params never got that far, after the shaft cylinder was
\* asked of the kernel and before any fuse.
create_model(b) ==
    IF ~HasAttr(b, "p1")
    THEN [status |-> "AttributeError", requests |-> NoRequests]
    ELSE IF ~IsSet(b.params.p1) \/ ~IsSet(b.shaftDir)
    THEN [status |-> "TypeError", requests |-> NoRequests]
    ELSE IF ~HasAttr(b, LastAttr(b))
    THEN [status |-> "AttributeError",
          requests |-> [made |-> <<boltCylinder1_of(b)>>, fused |-> <<>>]]
    ELSE [status |-> "ok",
          requests |-> CASE b.variant = "A" -> AnchorBolt_A_create_model(b)
                         [] b.variant = "B" -> AnchorBolt_B_create_model(b)
                         [] b.variant = "Endplate" -> AnchorBolt_Endplate_create_model(b)]

\* place returns None.
CallPlace ==
    \E o \in OriginInputs \cup {None}, f \in FrameInputs \cup PartialFrameInputs :
        \E r \in {place(bolt, o, f[1], f[2])} :
            /\ bolt' = r.bolt
            /\ kernel' = NoRequests
            /\ placed' = (placed \/ r.status = "ok")
            /\ lastCall' = [op |-> "place", args |-> <<o, f[1], f[2]>>]
            /\ ret' = [status |-> r.status, value |-> None]
            /\ UNCHANGED <<distVars, kbVars>>

\* compute_params called on its own; it returns None.
CallComputeParams ==
    \E r \in {compute_params(bolt)} :
        /\ bolt' = r.bolt
        /\ kernel' = NoRequests
        /\ lastCall' = [op |-> "compute_params", args |-> <<>>]
        /\ ret' = [status |-> r.status, value |-> None]
        /\ UNCHANGED <<placed, distVars, kbVars>>

\* create_model returns the shape of the last fuse.
CallCreateModel ==
    \E m \in {create_model(bolt)} :
        /\ kernel' = m.requests
        /\ lastCall' = [op |-> "create_model", args |-> <<>>]
        /\ ret' = IF m.status = "ok" THEN Ok("Anchor_BOlt") ELSE Err(m.status)
        /\ UNCHANGED <<bolt, placed, distVars, kbVars>>

-----
(* Specifications                                                          *)

\* A calculator just constructed: no attribute and no global is assigned.
InitCalculator ==
    /\ lastCall = NoCall
    /\ ret = NoRet
    /\ thickness_governing = None
    /\ angle_fy = None
    /\ min_pitch = None
    /\ min_gauge = None
    /\ min_end_dist = None
    /\ min_edge_dist = None
    /\ max_spacing = None
    /\ max_edge_dist = None
    /\ end_dist = None
    /\ pitch = None
    /\ bolt_hole_diameter = None
    /\ bolt_fu = None
    /\ angle_fu = None
    /\ k_b = None

InitCalc ==
    /\ InitCalculator
    /\ bolt = None
    /\ kernel = NoRequests
    /\ placed = FALSE

\* An anchor bolt of one of the three classes, just constructed.
InitBolt ==
    /\ InitCalculator
    /\ \E variant \in Variants, l \in LInputs, c \in CInputs, a \in AInputs, r \in RInputs :
           bolt = AnchorBolt_init(variant, l, c, a, r)
    /\ kernel = NoRequests
    /\ placed = FALSE

NextShear == CallBoltShear \/ CallBoltHoleClearance
NextKb    == \/ CallCalculateKb
             \/ AssignEndDist \/ AssignPitch \/ AssignBoltHoleDiameter
             \/ AssignBoltFu \/ AssignAngleFu
NextDist  == CallCalculateDistances \/ AssignThicknessGoverning \/ AssignAngleFy
NextBolt  == CallPlace \/ CallComputeParams \/ CallCreateModel
NextPlaceCreate == CallPlace \/ CallCreateModel

\* bolt_shear and bolt_hole_clearance
SpecShear == InitCalc /\ [][NextShear]_vars
\* calculate_kb and the attributes it reads
SpecKb == InitCalc /\ [][NextKb]_vars
\* calculate_distances and the ambient values it reads
SpecDist == InitCalc /\ [][NextDist]_vars
\* one anchor bolt instance, every method
SpecBolt == InitBolt /\ [][NextBolt]_vars
\* one anchor bolt instance, sequences of place and create_model calls
SpecPlaceCreate == InitBolt /\ [][NextPlaceCreate]_vars

-----------------------------------------------------------------------------
(* Properties of bolt_shear and bolt_hole_clearance, under SpecShear       *)

IsCall(op) == lastCall.op = op
Returned   == ret.status = "ok"

\* The diameters bolt_shear's table lists.
ShearDiameters == {12, 16, 20, 22, 24, 27, 30, 36}

\* C3 as stated: for every diameter of the data model (12, 14, ..., 36), with
\* a non-negative count and bolt_fu, bolt_shear returns a non-negative
\* capacity; for every other diameter it fails with a lookup error and
\* returns nothing.
C3_ShearEveryEnumeratedDiameter ==
    IsCall("bolt_shear") =>
        IF lastCall.args[1] \in Diameters
        THEN Returned /\ Val(ret.value) >= 0
        ELSE ret.status = "KeyError" /\ ret.value = None

\* C3 amended: bolt_shear returns a non-negative capacity for the diameters
\* 12, 16, 20, 22, 24, 27, 30 and 36 (non-negative count and bolt_fu), and
\* fails with a lookup error, returning nothing, for every other diameter,
\* 14 and 18 included.
C3_ShearListedDiameters ==
    IsCall("bolt_shear") =>
        IF lastCall.args[1] \in ShearDiameters
        THEN Returned /\ Val(ret.value) >= 0
        ELSE ret.status = "KeyError" /\ ret.value = None

\* bolt_shear was called for 14 mm bolts and failed with the lookup error.
C3_Witness ==
    /\ IsCall("bolt_shear")
    /\ lastCall.args = <<14, 4, 410>>
    /\ ret.status = "KeyError"

\* C4: bolt_hole_clearance returns the custom clearance whenever it is not
\* None, for both hole types and every diameter of the data model; with
\* None, a standard hole of diameter 20 gives 2.
C4_OverrideAlwaysReturned ==
    (/\ IsCall("bolt_hole_clearance")
     /\ lastCall.args[1] \in {0, 1}
     /\ lastCall.args[2] \in Diameters)
    => /\ IsSet(lastCall.args[3]) => ret = Ok(Val(lastCall.args[3]))
       /\ lastCall.args = <<1, 20, None>> => ret = Ok(2)

\* C5 as stated: bolt_shear(d, n, fu) equals n * bolt_shear(d, 1, fu) for a
\* listed diameter and n >= 1, each value being the rounded one.
C5_ShearLinearInCount ==
    (IsCall("bolt_shear") /\ Returned /\ lastCall.args[2] >= 1)
    => Val(ret.value) =
          lastCall.args[2] * Val(bolt_shear(lastCall.args[1], 1, lastCall.args[3]).value)

\* C5 amended: bolt_shear(d, n, fu) and n * bolt_shear(d, 1, fu) differ by at
\* most (n + 1) / 2 thousandths of a kN (each of the n + 1 roundings to three
\* decimals moves a value by at most half a thousandth); they are equal for
\* n = 1.
C5_ShearLinearUpToRounding ==
    (IsCall("bolt_shear") /\ Returned /\ lastCall.args[2] >= 1)
    => LET n   == lastCall.args[2]
           one == Val(bolt_shear(lastCall.args[1], 1, lastCall.args[3]).value)
       IN  /\ 2 * Abs(Val(ret.value) - n * one) <= n + 1
           /\ n = 1 => Val(ret.value) = one

\* bolt_shear(16, 4, 410) returned 118.925 while 4 * bolt_shear(16, 1, 410)
\* is 4 * 29.731 = 118.924.
C5_Witness ==
    /\ IsCall("bolt_shear")
    /\ lastCall.args = <<16, 4, 410>>
    /\ ret = Ok(118925)
    /\ bolt_shear(16, 1, 410) = Ok(29731)

-----------------------------------------------------------------------------
(* Properties of calculate_kb, under SpecKb                                *)

\* C6: after calculate_kb completes, k_b is at most 1, and it is exactly 1
\* when end_dist / (3 * hole), pitch / (3 * hole) - 0.25 and
\* bolt_fu / plate_fu all exceed 1.
C6_KbAtMostOne ==
    (IsCall("calculate_kb") /\ Returned)
    => LET e   == Val(end_dist)
           p   == Val(pitch)
           h   == Val(bolt_hole_diameter)
           fu  == Val(bolt_fu)
           afu == Val(angle_fu)
       IN  /\ Val(k_b) <= 1000
           /\ (e > 3 * h /\ 4 * p - 3 * h > 12 * h /\ fu > afu) => Val(k_b) = 1000

\* calculate_kb stored exactly 1 with all three quotients above 1.
C6_Witness ==
    /\ IsCall("calculate_kb")
    /\ Returned
    /\ end_dist = Some(70)
    /\ pitch = Some(60)
    /\ bolt_hole_diameter = Some(13)
    /\ bolt_fu = Some(800)
    /\ angle_fu = Some(410)
    /\ k_b = Some(1000)

-----------------------------------------------------------------------------
(* Properties of calculate_distances, under SpecDist                       *)

CompletedDistances ==
    IsCall("calculate_distances") /\ Returned /\ lastCall.args[1] \in Diameters

\* C1: after calculate_distances completes for a diameter of the data model,
\* each of min_pitch, min_gauge, min_end_dist and min_edge_dist is an exact
\* multiple of 5.
C1_MinDistancesMultiplesOf5 ==
    CompletedDistances =>
        /\ Val(min_pitch) % 5 = 0
        /\ Val(min_gauge) % 5 = 0
        /\ Val(min_end_dist) % 5 = 0
        /\ Val(min_edge_dist) % 5 = 0

\* calculate_distances(27, 13, 1.7) completed: int(67.5) = 67 and
\* ceil(22.1) = 23 were both rounded.
C1_Witness ==
    /\ IsCall("calculate_distances")
    /\ Returned
    /\ lastCall.args = <<27, 13, 17>>
    /\ min_pitch = Some(70)
    /\ min_end_dist = Some(25)
    /\ min_edge_dist = Some(25)

\* The least multiple of 5 that is at least x.
LeastMultipleOf5AtLeast(x) == 5 * ((x + 4) \div 5)

\* C2: after calculate_distances completes for a diameter of the data model,
\* min_pitch and min_gauge are equal, and both are the least multiple of 5
\* that is at least floor(2.5 * diameter).
C2_PitchEqualsGauge ==
    CompletedDistances =>
        /\ min_pitch = min_gauge
        /\ Val(min_pitch) = LeastMultipleOf5AtLeast((5 * lastCall.args[1]) \div 2)
        /\ Val(min_gauge) = LeastMultipleOf5AtLeast((5 * lastCall.args[1]) \div 2)

\* C10: a calculate_distances called while thickness_governing or angle_fy is
\* not set fails, and leaves all six distances as they were before the call.
C10_DistancesAllOrNothing ==
    [][(/\ lastCall'.op = "calculate_distances"
        /\ (~IsSet(thickness_governing) \/ ~IsSet(angle_fy)))
       => /\ ret'.status # "ok"
          /\ UNCHANGED <<min_pitch, min_gauge, min_end_dist, min_edge_dist,
                         max_spacing, max_edge_dist>>]_vars

-----------------------------------------------------------------------------
(* Properties of the anchor bolt builders, under SpecBolt                  *)

\* C7: in any sequence of place and create_model calls on one instance,
\* create_model returns a solid only if a place call has completed earlier
\* on the instance; without one it fails and asks no fuse of the kernel, and
\* on a fresh instance it asks nothing at all.
C7_CreateModelNeedsPlace ==
    IsCall("create_model") =>
        /\ Returned => placed
        /\ ~placed => (ret.status # "ok" /\ ret.value = None /\ kernel.fused = <<>>)
        /\ bolt.params = NoParams =>
              (ret.status = "AttributeError" /\ kernel = NoRequests)

\* create_model was called on a fresh instance and failed.
C7_Witness ==
    /\ IsCall("create_model")
    /\ ~placed
    /\ bolt = AnchorBolt_init(bolt.variant, bolt.l, bolt.c, bolt.a, bolt.r)
    /\ ret.status = "AttributeError"
    /\ kernel = NoRequests

\* The instance is placed with orthogonal directions and its attributes are
\* those compute_params gives for that placement.
Framed(b) ==
    /\ Placed(b)
    /\ VDot(Val(b.uDir), Val(b.shaftDir)) = 0
    /\ compute_params(b) = [status |-> "ok", bolt |-> b]

\* A box, with sides along the axes, that holds the primitive: exact for a
\* sphere, for a box and along the axis of a cylinder whose axis is a
\* coordinate axis; otherwise the box around a ball that holds the primitive.
CeilSqrt(x) == CHOOSE k \in 0..(x + 1) : k * k >= x /\ (k = 0 \/ (k - 1) * (k - 1) < x)
Sign(x)     == IF x > 0 THEN 1 ELSE IF x < 0 THEN -1 ELSE 0
AlongAxis(d) == Cardinality({i \in 1..3 : d[i] # 0}) = 1
Around(c, e) == [lo |-> <<c[1] - e, c[2] - e, c[3] - e>>,
                 hi |-> <<c[1] + e, c[2] + e, c[3] + e>>]
Bounds(s) ==
    CASE s.kind = "sphere" -> Around(s.at, s.radius)
      [] s.kind = "box" ->
            LET far == VAdd(VAdd(VAdd(s.at, s.ex), s.ey), s.ez)
            IN  [lo |-> [i \in 1..3 |-> Min2(s.at[i], far[i])],
                 hi |-> [i \in 1..3 |-> Max2(s.at[i], far[i])]]
      [] s.kind = "revol" ->
            LET arm == VSub(s.at, s.axis_at)
            IN  Around(s.axis_at, Abs(arm[1]) + Abs(arm[2]) + Abs(arm[3]) + s.radius)
      [] s.kind = "cylinder" ->
            IF ~s.height.root /\ AlongAxis(s.dir)
            THEN LET far == [i \in 1..3 |-> s.at[i] + s.height.of * Sign(s.dir[i])]
                     across(i) == IF s.dir[i] = 0 THEN s.radius ELSE 0
                 IN  [lo |-> [i \in 1..3 |-> Min2(s.at[i], far[i]) - across(i)],
                      hi |-> [i \in 1..3 |-> Max2(s.at[i], far[i]) + across(i)]]
            ELSE Around(s.at, s.radius + (IF s.height.root THEN CeilSqrt(s.height.of)
                                          ELSE Max2(s.height.of, 0)))

\* Two primitives can share a point only if their boxes do.
MayTouch(s, t) ==
    \A i \in 1..3 : Bounds(s).lo[i] <= Bounds(t).hi[i] /\ Bounds(t).lo[i] <= Bounds(s).hi[i]

PositiveLengths(s) ==
    CASE s.kind = "cylinder" -> s.height.of > 0 /\ s.radius > 0
      [] s.kind = "box" -> s.ex[1] > 0 /\ s.ey[2] > 0 /\ s.ez[3] > 0
      [] OTHER -> s.radius > 0

PrimitiveCount(variant) == IF variant = "Endplate" THEN 2 ELSE 7

\* C8: for every placement with orthogonal unit directions and all positive
\* l, c, a, r, create_model fuses all of its primitives (seven for A and B,
\* two for Endplate) into one result, each primitive fused touches the
\* running union, and every length asked of the kernel is positive.
C8_OneSolidNoIsland ==
    (IsCall("create_model") /\ Returned /\ Framed(bolt))
    => /\ Len(kernel.fused) = PrimitiveCount(bolt.variant)
       /\ {kernel.fused[i] : i \in 1..Len(kernel.fused)}
             = {kernel.made[i] : i \in 1..Len(kernel.made)}
       /\ \A k \in 2..Len(kernel.fused) :
             \E j \in 1..(k - 1) : MayTouch(kernel.fused[k], kernel.fused[j])
       /\ \A k \in 1..Len(kernel.made) : PositiveLengths(kernel.made[k])

Parallel(v, w) == v # <<0, 0, 0>> /\ VCross(v, w) = <<0, 0, 0>>
Norm1(v) == Abs(v[1]) + Abs(v[2]) + Abs(v[3])

\* C9: for every placement, the box of the Endplate variant has its
\* thickness (5) along shaftDir and its two widths (l / 2 each) along uDir
\* and vDir = shaftDir x uDir.
C9_EndplateAcrossShaft ==
    (IsCall("create_model") /\ Returned /\ Framed(bolt) /\ bolt.variant = "Endplate")
    => LET box == kernel.made[2]
           u == Val(bolt.uDir)
           s == Val(bolt.shaftDir)
           v == VCross(s, u)
       IN  /\ box.kind = "box"
           /\ Parallel(box.ez, s) /\ Norm1(box.ez) = Q(5)
           /\ \/ Parallel(box.ex, u) /\ Parallel(box.ey, v)
              \/ Parallel(box.ex, v) /\ Parallel(box.ey, u)
           /\ Norm1(box.ex) = Q(bolt.l) \div 2
           /\ Norm1(box.ey) = Q(bolt.l) \div 2

=============================================================================
